---------------------------- MODULE Spec2Model ----------------------------
(***************************************************************************)
(* A model of the step sequencer of src/main.py: the PsytranceSequencer    *)
(* object, its AudioManager and UIManager, the Tk main thread that runs    *)
(* the UI callbacks one at a time, and the daemon thread that runs         *)
(* sequencer_loop; with them the callbacks root.after queues for the main  *)
(* loop, the volumes, and the samples generate_kick and load_sound_data    *)
(* make.  The two threads share the attributes of the three objects        *)
(* without any lock, so the sequencer thread is modelled one shared read   *)
(* or write per step, and clear_pattern (the one callback whose writes     *)
(* race with the loop's) in the three steps of its body.                   *)
(***************************************************************************)
EXTENDS Integers, Sequences, FiniteSets, TLC

(***************************************************************************)
(* Program constants.                                                      *)
(***************************************************************************)
NumSteps == 16

NumTracks == 8

DefaultBpm == 145

Steps == 0 .. (NumSteps - 1)

Tracks == 0 .. (NumTracks - 1)

(***************************************************************************)
(* Inputs of the callbacks, drawn from small sets.                         *)
(***************************************************************************)
\* toggle_step arguments of the specifications that run the loop: two cells
\* of row 0.
GridStepArgs == {0}

GridTrackArgs == {0, 1}

\* toggle_step arguments <<track, step>> of the specification that resets
\* the step in the middle of a tick: a cell of row 1 and a cell of row 0.
ResetCellArgs == {<<0, 1>>, <<1, 0>>}

\* toggle_step arguments of the call-level specification: both ends of the
\* range Python accepts for a list of that length, and one past each end.
CallStepArgs == {-17, -16, -1, 0, 15, 16}

CallTrackArgs == {-9, -8, -1, 0, 7, 8}

\* set_tempo arguments: inside [60,200], its two ends, just outside, far
\* outside, zero and negative.
TempoArgs == {-60, 0, 59, 60, 145, 200, 201, 500}

\* set_tempo arguments of the specification that runs the loop.
LoopTempoArgs == {-60, 0, 120, 500}

\* Tracks that generate_synthetic_sample is called for.
SynthTracks == {0}

\* set_tempo arguments of the specification that follows the display.
DisplayTempoArgs == {120}

\* set_volume arguments, as fractions <<n, d>>: below 0, 0, inside (0,1), 1
\* and above 1.  The slider hands in value / 200 for value in 0 .. 200.
VolumeArgs == {<<-1, 2>>, <<0, 1>>, <<1, 2>>, <<1, 1>>, <<3, 2>>}

(***************************************************************************)
(* Rationals, for 60.0 / bpm / 4: <<n, d>> with d > 0 and gcd(n, d) = 1.   *)
(***************************************************************************)
Abs(x) == IF x < 0 THEN -x ELSE x

RECURSIVE Gcd(_, _)
Gcd(a, b) == IF b = 0 THEN a ELSE Gcd(b, a % b)

RatNorm(n, d) ==
    LET g == Gcd(Abs(n), Abs(d))
        s == IF d < 0 THEN -1 ELSE 1
    IN  <<(s * n) \div g, (s * d) \div g>>

\* q / k for an integer k # 0
RatDiv(q, k) == RatNorm(q[1], q[2] * k)

RatPositive(q) == q[1] > 0

RatNegative(q) == q[1] < 0

\* 60.0 / bpm / 4
BeatDuration(b) == RatDiv(RatDiv(<<60, 1>>, b), 4)

RatMul(p, q) == RatNorm(p[1] * q[1], p[2] * q[2])

RatLeq(p, q) == p[1] * q[2] <= q[1] * p[2]

RatMin(p, q) == IF RatLeq(p, q) THEN p ELSE q

RatMax(p, q) == IF RatLeq(p, q) THEN q ELSE p

(***************************************************************************)
(* Python list indexing: an index i of a list of length n is valid iff     *)
(* -n <= i < n, and a negative one counts from the end.                    *)
(***************************************************************************)
PyIndexValid(i, n) == -n <= i /\ i < n

PyIndex(i, n) == IF i < 0 THEN i + n ELSE i

(***************************************************************************)
(* The pattern: a list of 16 rows, each a list of 8 booleans.              *)
(***************************************************************************)
Grid == [Steps -> [Tracks -> BOOLEAN]]

EmptyGrid == [s \in Steps |-> [t \in Tracks |-> FALSE]]

GridObjects == {1, 2}

NoPlays == [t \in Tracks |-> 0]

(***************************************************************************)
(* What load_samples can leave behind, per track: the sample was not       *)
(* downloaded (file None), downloaded and loaded into the mixer, or        *)
(* downloaded with pygame failing to load it (file set, no sound).         *)
(***************************************************************************)
AllLoaded == [file |-> Tracks, sounds |-> Tracks]

LoadOutcomes ==
    { [file |-> {}, sounds |-> {}],
      AllLoaded,
      [file |-> {0, 1}, sounds |-> {0}] }

(***************************************************************************)
(* Volumes.                                                                *)
(***************************************************************************)
\* self.master_volume = 1.0
DefaultVolume == <<1, 1>>

\* the volume a pygame Sound has until set_volume is called on it
NewSoundVolume == <<1, 1>>

\* the factor of play_sound's curve
VolumeGain == <<3, 2>>

(***************************************************************************)
(* Tk.                                                                     *)
(***************************************************************************)
\* the queued callback of clear_playhead; that of update_playhead(s) is s
ClearCb == -1

\* the callbacks root.after holds at most before the main loop runs one
MaxAfter == 1

\* the text create_controls gives the play button: a triangle, then Play
InitialPlayText == "> Play"

(***************************************************************************)
(* Samples, in fixed point: the integer n stands for n / SampleScale.      *)
(***************************************************************************)
SampleScale == 10000

\* a sample not made yet
NoSample == 100000

\* the samples load_sound_data is given: -3.0 to 3.0 in steps of 0.05
SampleArgs == {500 * k : k \in -60 .. 60}

\* the factor of load_sound_data, and the ends of numpy's int16
Int16Max == 32767

Int16Min == -32768

\* the integer part of a / b for b > 0, as a conversion of a float to an
\* integer takes it: towards zero
TruncDiv(a, b) == IF a >= 0 THEN a \div b ELSE -((-a) \div b)

\* a / b for b > 0 rounded to the nearest integer, halves away from zero
RoundDiv(a, b) ==
    IF a >= 0 THEN (2 * a + b) \div (2 * b) ELSE -((2 * (-a) + b) \div (2 * b))

\* the 16 low bits of v, as a signed integer
Wrap16(v) == ((v - Int16Min) % 65536) + Int16Min

Clamp16(v) ==
    IF v > Int16Max THEN Int16Max ELSE IF v < Int16Min THEN Int16Min ELSE v

\* ndarray.astype(np.int16) of a float whose integer part is v.  Outside
\* the int16 range the C conversion behind it is undefined: a build that
\* converts through a wider integer keeps the 16 low bits, one that uses a
\* saturating conversion stops at the end of the range.
AsInt16(v) ==
    IF Int16Min <= v /\ v <= Int16Max THEN {v} ELSE {Wrap16(v), Clamp16(v)}

\* the int16 values load_sound_data can make of the sample x
Quantized(x) == AsInt16(TruncDiv(x * Int16Max, SampleScale))

(***************************************************************************)
(* generate_kick, in fixed point: times in units of 1 / TimeScale seconds, *)
(* angles in radians and in turns and values in units of 1 / SampleScale.  *)
(* The series are cut where their next term is below that unit.            *)
(***************************************************************************)
SampleRate == 44100

TimeScale == 10000000

\* int(sample_rate * duration) for the kick's duration of 0.3
KickSamples == (SampleRate * 3) \div 10

\* the last index of the kick's buffer that is followed
MaxKickIdx == 250

KickIdxArgs == 0 .. MaxKickIdx

\* np.linspace(0, duration, int(sample_rate * duration))[i]
KickTime(i) == (i * 3 * (TimeScale \div 10)) \div (KickSamples - 1)

\* np.exp(-x) for 0 <= x < 1
ExpNeg(x) ==
    LET t2 == (x * x) \div (2 * SampleScale)
        t3 == (t2 * x) \div (3 * SampleScale)
        t4 == (t3 * x) \div (4 * SampleScale)
        t5 == (t4 * x) \div (5 * SampleScale)
    IN  SampleScale - x + t2 - t3 + t4 - t5

\* np.exp(-t * rate)
Decay(t, rate) == ExpNeg((rate * t) \div (TimeScale \div SampleScale))

\* 2 * np.pi
TwoPi == 62832

\* np.sin(th) for 0 <= th <= pi / 2
SinQuarter(th) ==
    LET sq == (th * th) \div SampleScale
        t3 == (th * sq) \div (6 * SampleScale)
        t5 == (t3 * sq) \div (20 * SampleScale)
        t7 == (t5 * sq) \div (42 * SampleScale)
        t9 == (t7 * sq) \div (72 * SampleScale)
    IN  th - t3 + t5 - t7 + t9

\* np.sin(2 * np.pi * u) for u >= 0 in turns
SinTurns(u) ==
    LET quarter == SampleScale \div 4
        q == (u % SampleScale) \div quarter
        r == u % quarter
        a == IF q % 2 = 0 THEN r ELSE quarter - r
        v == SinQuarter((a * TwoPi) \div SampleScale)
    IN  IF q < 2 THEN v ELSE -v

\* kick[i] of generate_kick: the swept sine under its envelope, plus the
\* click, times 0.95
KickSample(i) ==
    LET t == KickTime(i)
        \* freq * t with freq = 60 * np.exp(-t * 8), in turns
        turns == (((60 * t) \div (TimeScale \div SampleScale)) * Decay(t, 8))
                     \div SampleScale
        kick == (SinTurns(turns) * Decay(t, 15)) \div SampleScale
        clickTurns == (2000 * t) \div (TimeScale \div SampleScale)
        click == (((Decay(t, 50) * SinTurns(clickTurns)) \div SampleScale) * 5)
                     \div 10
    IN  ((kick + click) * 95) \div 100

VARIABLES
    \* PsytranceSequencer
    bpm, beat_duration, current_step, is_playing,
    tracks_file,      \* the tracks whose "file" is not None
    engine_beat,      \* SequencerEngine.beat_duration
    \* AudioManager
    sounds,           \* the tracks whose key is in AudioManager.sounds
    \* UIManager
    heap,             \* the grid objects: GridObjects -> Grid
    pattern,          \* UIManager.pattern: a reference into heap
    buttons,          \* buttons[track][step] is lit
    \* the Tk main thread
    ui_pc,            \* "idle", or the place inside clear_pattern
    ui_error,         \* what the last callback raised, "none" if nothing
    \* the sequencer thread
    seq_pc,
    loc_pattern,      \* the local variable pattern: a reference, 0 if dead
    track_idx,
    step_read,        \* the value of self.current_step just read, -1 if none
    sleep_arg,        \* the length of the time.sleep in progress
    \* what the running tick has done so far, one record per track, and the
    \* cells <<step, track>> it has called play_sound for
    tick_log, play_cells,
    \* the step the next update_playhead is due to carry: 0 at first, one
    \* past the last one after, -1 once clear_pattern has written current_step
    due_step,
    \* the contents the pattern's current row has had while the running tick
    \* was reading it
    row_hist,
    \* the cells a toggle_step has cleared and none has set since: those
    \* cleared before the running tick fetched the pattern, and those after
    off_settled, off_pending,
    \* the cycle of 16 ticks in progress: whether it began at step 0 and no
    \* callback has run since, and the play calls per track it has made
    cycle_quiet, cycle_plays,
    \* PsytranceSequencer.master_volume, and the volume of each track's
    \* pygame Sound
    master_volume, sound_volume,
    \* Tk: the callbacks root.after(0, ...) has queued and not yet run (a step
    \* for update_playhead's, ClearCb for clear_playhead's), the playhead
    \* labels that are highlighted, and the text of the play button
    after_queue, playhead, play_text,
    \* whether the specification follows the Tk timer queue.  The queue and
    \* the labels are written by the actions below and read by none of them
    \* but RunAfter, so a specification whose claims are not about the display
    \* leaves them out: there a root.after changes nothing that is modelled.
    tk_traced,
    \* a sample on its way to the mixer: its index in the synthesizer's
    \* buffer, its value, and the int16 load_sound_data has made of it
    synth_idx, sound_data, pcm

vars == <<bpm, beat_duration, current_step, is_playing, tracks_file,
          engine_beat, sounds, heap, pattern, buttons, ui_pc, ui_error,
          seq_pc, loc_pattern, track_idx, step_read, sleep_arg, tick_log,
          play_cells, due_step, row_hist, off_settled, off_pending,
          cycle_quiet, cycle_plays, master_volume, sound_volume, after_queue,
          playhead, play_text, tk_traced, synth_idx, sound_data, pcm>>

seqVars == <<seq_pc, loc_pattern, track_idx, step_read, sleep_arg, tick_log,
             play_cells>>

uiVars == <<ui_pc, ui_error>>

offVars == <<off_settled, off_pending>>

cycleVars == <<cycle_quiet, cycle_plays>>

tempoVars == <<bpm, beat_duration>>

gridVars == <<heap, pattern, buttons>>

loadVars == <<tracks_file, sounds, engine_beat>>

volVars == <<master_volume, sound_volume>>

tkVars == <<after_queue, playhead, play_text, tk_traced>>

bufVars == <<synth_idx, sound_data, pcm>>

(***************************************************************************)
(* The state after PsytranceSequencer.__init__.                            *)
(***************************************************************************)
InitObjects(outcomes) ==
    /\ bpm = DefaultBpm
    /\ beat_duration = BeatDuration(DefaultBpm)
    /\ engine_beat = BeatDuration(DefaultBpm)
    /\ current_step = 0
    /\ is_playing = FALSE
    /\ \E o \in outcomes : tracks_file = o.file /\ sounds = o.sounds
    /\ heap = [g \in GridObjects |-> EmptyGrid]
    /\ pattern = 1
    /\ buttons = [t \in Tracks |-> [s \in Steps |-> FALSE]]
    /\ ui_pc = "idle"
    /\ ui_error = "none"
    /\ seq_pc = "check"
    /\ loc_pattern = 0
    /\ track_idx = 0
    /\ step_read = -1
    /\ sleep_arg = <<0, 1>>
    /\ tick_log = <<>>
    /\ play_cells = {}
    /\ due_step = 0
    /\ row_hist = {}
    /\ off_settled = {}
    /\ off_pending = {}
    /\ cycle_quiet = FALSE
    /\ cycle_plays = NoPlays
    /\ master_volume = DefaultVolume
    /\ sound_volume = [t \in Tracks |-> NewSoundVolume]
    /\ after_queue = <<>>
    /\ playhead = {}
    /\ play_text = InitialPlayText

\* with no sample on its way to the mixer, the display not followed
InitWith(outcomes) ==
    /\ InitObjects(outcomes)
    /\ tk_traced = FALSE
    /\ synth_idx = -1
    /\ sound_data = NoSample
    /\ pcm = NoSample

Init == InitWith(LoadOutcomes)

(***************************************************************************)
(* The sequencer thread: sequencer_loop, one shared access per step.  A    *)
(* local value that is not read again before it is rebound (the pattern    *)
(* reference and the loop index after the for loop, the value read for a   *)
(* subscript or a store once used, the argument of a sleep that has        *)
(* returned) is dropped where it dies.                                     *)
(***************************************************************************)
\* a step counter that skips a step
NextStepSkipping(s) == (s + 2) % NumSteps

\* (self.current_step + 1) % 16
NextStep(s) == (s + 1) % NumSteps

\* a dispatch that does not look at the flag
ShouldPlayUnflagged(flag, t) == t \in tracks_file /\ t \in sounds

\* the two guards around play_sound, and the one inside it
ShouldPlay(flag, t) == flag /\ t \in tracks_file /\ t \in sounds

\* a sleep that lasts the duration SequencerEngine was constructed with
SleepDurationOfEngine == engine_beat

\* the argument of time.sleep at the end of a tick
SleepDuration == beat_duration

\* what get_pattern returns
GetPattern == pattern

\* the step whose row the loop subscripts
RowStep == current_step

InLoop == seq_pc \in {"loop", "cell"}

\* a grid object nothing refers to any more
Collect(h, live) ==
    [g \in GridObjects |-> IF g \in live THEN h[g] ELSE EmptyGrid]

\* while True: if self.is_playing
SeqCheck ==
    /\ seq_pc = "check"
    /\ seq_pc' = IF is_playing THEN "get" ELSE "idle"
    /\ UNCHANGED <<loc_pattern, track_idx, step_read, sleep_arg, tick_log,
                   play_cells, due_step, row_hist, offVars, cycleVars,
                   current_step, is_playing, tempoVars, gridVars, loadVars,
                   uiVars, volVars, tkVars, bufVars>>

\* time.sleep(0.01) returns
SeqIdleWake ==
    /\ seq_pc = "idle"
    /\ seq_pc' = "check"
    /\ UNCHANGED <<loc_pattern, track_idx, step_read, sleep_arg, tick_log,
                   play_cells, due_step, row_hist, offVars, cycleVars,
                   current_step, is_playing, tempoVars, gridVars, loadVars,
                   uiVars, volVars, tkVars, bufVars>>

\* pattern = self.ui_manager.get_pattern(): the list itself, not a copy
SeqGetPattern ==
    /\ seq_pc = "get"
    /\ loc_pattern' = GetPattern
    /\ track_idx' = 0
    /\ seq_pc' = "loop"
    /\ row_hist' = {heap[pattern][current_step]}
    /\ off_settled' = off_settled \cup off_pending
    /\ off_pending' = {}
    /\ cycle_quiet' = IF current_step = 0 THEN ui_pc = "idle" ELSE cycle_quiet
    /\ cycle_plays' = IF current_step = 0 THEN NoPlays ELSE cycle_plays
    /\ UNCHANGED <<step_read, sleep_arg, tick_log, play_cells, due_step,
                   current_step, is_playing, tempoVars, gridVars, loadVars,
                   uiVars, volVars, tkVars, bufVars>>

\* for track_idx in range(len(self.tracks)), and the read of
\* self.current_step for the subscript
SeqLoopHead ==
    /\ seq_pc = "loop"
    /\ IF track_idx < NumTracks
         THEN /\ step_read' = RowStep
              /\ seq_pc' = "cell"
              /\ UNCHANGED <<loc_pattern, track_idx, heap, volVars, tkVars,
                             bufVars>>
         ELSE /\ seq_pc' = "notify"
              /\ loc_pattern' = 0
              /\ track_idx' = 0
              /\ heap' = Collect(heap, {pattern})
              /\ UNCHANGED step_read
    /\ UNCHANGED <<sleep_arg, tick_log, play_cells, due_step, row_hist,
                   offVars, cycleVars, current_step, is_playing, tempoVars,
                   pattern, buttons, loadVars, uiVars, volVars, tkVars,
                   bufVars>>

\* a curve that is linear in the volume
LinearVolume(v) == RatMin(RatMul(v, VolumeGain), <<1, 1>>)

\* what play_sound hands to Sound.set_volume for the volume it is given
EffectiveVolume(v) ==
    RatMin(RatMul(RatMul(v, v), VolumeGain), <<1, 1>>)

\* the read of pattern[step][track_idx], the tests and the call of play_sound
SeqCell ==
    /\ seq_pc = "cell"
    /\ LET flag == heap[loc_pattern][step_read][track_idx]
           play == ShouldPlay(flag, track_idx)
       IN  /\ tick_log' = Append(tick_log,
                   [flag |-> flag, loaded |-> track_idx \in sounds,
                    played |-> play])
           /\ play_cells' = IF play THEN play_cells \cup {<<step_read, track_idx>>}
                                    ELSE play_cells
           /\ cycle_plays' =
                IF cycle_quiet /\ play
                  THEN [cycle_plays EXCEPT ![track_idx] = @ + 1]
                  ELSE cycle_plays
           /\ sound_volume' =
                IF play
                  THEN [sound_volume EXCEPT
                          ![track_idx] = EffectiveVolume(master_volume)]
                  ELSE sound_volume
    /\ track_idx' = track_idx + 1
    /\ step_read' = -1
    /\ seq_pc' = "loop"
    /\ UNCHANGED <<loc_pattern, sleep_arg, due_step, row_hist, offVars,
                   cycle_quiet, current_step, is_playing, tempoVars, gridVars,
                   loadVars, uiVars, master_volume, tkVars, bufVars>>

\* root.after(0, cb) can run: the queue has room
AfterRoom == tk_traced => Len(after_queue) < MaxAfter

\* the timer queue after root.after(0, cb)
AfterPosted(cb) == IF tk_traced THEN Append(after_queue, cb) ELSE after_queue

\* self.ui_manager.update_playhead(self.current_step)
SeqNotify ==
    /\ seq_pc = "notify"
    /\ AfterRoom
    /\ after_queue' = AfterPosted(current_step)
    /\ due_step' = (current_step + 1) % NumSteps
    /\ tick_log' = <<>>
    /\ play_cells' = {}
    /\ row_hist' = {}
    /\ seq_pc' = "advance"
    /\ UNCHANGED <<loc_pattern, track_idx, step_read, sleep_arg, offVars,
                   cycleVars, current_step, is_playing, tempoVars, gridVars,
                   loadVars, uiVars, volVars, playhead, play_text, tk_traced,
                   bufVars>>

\* the read of self.current_step in the right-hand side of the assignment
SeqAdvanceRead ==
    /\ seq_pc = "advance"
    /\ step_read' = current_step
    /\ seq_pc' = "store"
    /\ UNCHANGED <<loc_pattern, track_idx, sleep_arg, tick_log, play_cells,
                   due_step, row_hist, offVars, cycleVars, current_step,
                   is_playing, tempoVars, gridVars, loadVars, uiVars, volVars,
                   tkVars, bufVars>>

\* the store into self.current_step
SeqStore ==
    /\ seq_pc = "store"
    /\ current_step' = NextStep(step_read)
    /\ step_read' = -1
    /\ seq_pc' = "read_beat"
    /\ UNCHANGED <<loc_pattern, track_idx, sleep_arg, tick_log, play_cells,
                   due_step, row_hist, offVars, cycleVars, is_playing,
                   tempoVars, gridVars, loadVars, uiVars, volVars, tkVars,
                   bufVars>>

\* time.sleep(self.beat_duration): the attribute is read and the thread
\* sleeps for that long; time.sleep raises ValueError for a negative length,
\* and nothing in the loop catches it.
SeqSleep ==
    /\ seq_pc = "read_beat"
    /\ sleep_arg' = SleepDuration
    /\ seq_pc' = IF RatNegative(SleepDuration) THEN "dead" ELSE "sleeping"
    /\ UNCHANGED <<loc_pattern, track_idx, step_read, tick_log, play_cells,
                   due_step, row_hist, offVars, cycleVars, current_step,
                   is_playing, tempoVars, gridVars, loadVars, uiVars, volVars,
                   tkVars, bufVars>>

\* time.sleep returns
SeqWake ==
    /\ seq_pc = "sleeping"
    /\ sleep_arg' = <<0, 1>>
    /\ seq_pc' = "check"
    /\ UNCHANGED <<loc_pattern, track_idx, step_read, tick_log, play_cells,
                   due_step, row_hist, offVars, cycleVars, current_step,
                   is_playing, tempoVars, gridVars, loadVars, uiVars, volVars,
                   tkVars, bufVars>>

(***************************************************************************)
(* The Tk main thread: one callback at a time.                             *)
(***************************************************************************)
\* a callback has run: the cycle in progress is no longer left alone
UiTouch ==
    /\ cycle_quiet' = FALSE
    /\ cycle_plays' = NoPlays

\* the row the loop is reading, after a callback's write
RowHistAfter(newHeap, newPattern, newStep) ==
    IF InLoop THEN row_hist \cup {newHeap[newPattern][newStep]} ELSE row_hist

\* a toggle that only ever sets
ToggledOn(v) == TRUE

\* not self.pattern[step][track]
Toggled(v) == ~v

\* the subscripts self.pattern[step][track] accepts
ToggleIndexValid(track, step) ==
    PyIndexValid(step, NumSteps) /\ PyIndexValid(track, NumTracks)

\* UIManager.toggle_step(track, step): the right-hand side is evaluated, and
\* raises IndexError, before anything is stored
ToggleStep(track, step) ==
    /\ ui_pc = "idle"
    /\ IF ToggleIndexValid(track, step)
         THEN LET s == PyIndex(step, NumSteps)
                  t == PyIndex(track, NumTracks)
                  v == Toggled(heap[pattern][s][t])
                  h == [heap EXCEPT ![pattern][s][t] = v]
              IN  /\ heap' = h
                  /\ buttons' = [buttons EXCEPT ![t][s] = v]
                  /\ ui_error' = "none"
                  /\ row_hist' = RowHistAfter(h, pattern, current_step)
                  /\ off_settled' = off_settled \ {<<s, t>>}
                  /\ off_pending' = IF v THEN off_pending \ {<<s, t>>}
                                         ELSE off_pending \cup {<<s, t>>}
         ELSE /\ ui_error' = "IndexError"
              /\ UNCHANGED <<heap, buttons, row_hist, offVars, volVars,
                             tkVars, bufVars>>
    /\ UiTouch
    /\ UNCHANGED <<pattern, ui_pc, seqVars, due_step, current_step,
                   is_playing, tempoVars, loadVars, volVars, tkVars, bufVars>>

\* the grid UIManager.clear_pattern binds self.pattern to
ClearedGrid == EmptyGrid

\* the value clear_pattern stores into self.current_step
ResetStep == 0

\* PsytranceSequencer.clear_pattern, first statement: UIManager.clear_pattern
\* binds self.pattern to a new grid and unlights every button.  The new
\* object takes the free slot of the heap: the other one while the loop's
\* local variable holds the old grid, the old one's otherwise.
ClearPatternGrid ==
    /\ ui_pc = "idle"
    /\ LET new == IF loc_pattern = pattern THEN 3 - pattern ELSE pattern
           h == [heap EXCEPT ![new] = ClearedGrid]
       IN  /\ heap' = h
           /\ pattern' = new
           /\ row_hist' = RowHistAfter(h, new, current_step)
    /\ buttons' = [t \in Tracks |-> [s \in Steps |-> FALSE]]
    /\ ui_pc' = "clear_store"
    /\ ui_error' = "none"
    /\ UiTouch
    /\ UNCHANGED <<seqVars, due_step, offVars, current_step, is_playing,
                   tempoVars, loadVars, volVars, tkVars, bufVars>>

\* PsytranceSequencer.clear_pattern, second statement: self.current_step = 0
ClearPatternStore ==
    /\ ui_pc = "clear_store"
    /\ current_step' = ResetStep
    /\ due_step' = -1
    /\ row_hist' = RowHistAfter(heap, pattern, ResetStep)
    /\ ui_pc' = "clear_ret"
    /\ UiTouch
    /\ UNCHANGED <<ui_error, seqVars, offVars, is_playing, tempoVars,
                   gridVars, loadVars, volVars, tkVars, bufVars>>

\* PsytranceSequencer.clear_pattern returns
ClearPatternReturn ==
    /\ ui_pc = "clear_ret"
    /\ ui_pc' = "idle"
    /\ UiTouch
    /\ UNCHANGED <<ui_error, seqVars, due_step, row_hist, offVars,
                   current_step, is_playing, tempoVars, gridVars, loadVars,
                   volVars, tkVars, bufVars>>

\* a toggle_playback that never asks for the playhead to be cleared
StopSilently(playing) == FALSE

\* if not self.is_playing, after the flip
StopSignalled(playing) == ~playing

\* the body of PsytranceSequencer.toggle_playback: the flip, and
\* clear_playhead's root.after(0, clear) if it was a stop
TogglePlaybackBody ==
    /\ ui_pc = "idle"
    /\ is_playing' = ~is_playing
    /\ IF StopSignalled(is_playing')
         THEN /\ AfterRoom
              /\ after_queue' = AfterPosted(ClearCb)
         ELSE after_queue' = after_queue
    /\ ui_error' = "none"
    /\ UiTouch
    /\ UNCHANGED <<ui_pc, seqVars, due_step, row_hist, offVars, current_step,
                   tempoVars, gridVars, loadVars, volVars, playhead,
                   tk_traced, bufVars>>

\* PsytranceSequencer.toggle_playback, called by itself
TogglePlayback ==
    /\ TogglePlaybackBody
    /\ play_text' = play_text

\* the text on_play_clicked gives the button
NextPlayText(text) == IF text = "PLAY" THEN "STOP" ELSE "PLAY"

\* UIManager.on_play_clicked: the play callback, then the button's text
OnPlayClicked ==
    /\ TogglePlaybackBody
    /\ play_text' = NextPlayText(play_text)

\* the Tk main loop runs the oldest callback root.after has queued: update
\* unlights every playhead label and lights that of its step, clear unlights
\* every label
RunAfter ==
    /\ ui_pc = "idle"
    /\ after_queue # <<>>
    /\ playhead' = IF Head(after_queue) = ClearCb THEN {}
                                                  ELSE {Head(after_queue)}
    /\ after_queue' = Tail(after_queue)
    /\ UNCHANGED <<uiVars, seqVars, due_step, row_hist, offVars, cycleVars,
                   current_step, is_playing, tempoVars, gridVars, loadVars,
                   volVars, play_text, tk_traced, bufVars>>

\* PsytranceSequencer.set_volume(v)
SetVolume(v) ==
    /\ ui_pc = "idle"
    /\ master_volume' = RatMax(<<0, 1>>, RatMin(<<1, 1>>, v))
    /\ ui_error' = "none"
    /\ UiTouch
    /\ UNCHANGED <<ui_pc, seqVars, due_step, row_hist, offVars, current_step,
                   is_playing, tempoVars, gridVars, loadVars, sound_volume,
                   tkVars, bufVars>>

\* PsytranceSequencer.set_tempo(b): self.bpm is stored first; the division
\* raises ZeroDivisionError for b = 0, before beat_duration is stored.
SetTempo(b) ==
    /\ ui_pc = "idle"
    /\ bpm' = b
    /\ IF b = 0
         THEN /\ ui_error' = "ZeroDivisionError"
              /\ beat_duration' = beat_duration
         ELSE /\ ui_error' = "none"
              /\ beat_duration' = BeatDuration(b)
    /\ UiTouch
    /\ UNCHANGED <<ui_pc, seqVars, due_step, row_hist, offVars, current_step,
                   is_playing, gridVars, loadVars, volVars, tkVars, bufVars>>

\* PsytranceSequencer.generate_synthetic_sample(tracks[t]): the buffer goes
\* to AudioManager.load_sound_data under the track's key, as a new Sound; the
\* track's "file" is left as it is.
GenerateSyntheticSample(t) ==
    /\ ui_pc = "idle"
    /\ sounds' = sounds \cup {t}
    /\ sound_volume' = [sound_volume EXCEPT ![t] = NewSoundVolume]
    /\ ui_error' = "none"
    /\ UiTouch
    /\ UNCHANGED <<ui_pc, seqVars, due_step, row_hist, offVars, current_step,
                   is_playing, tempoVars, gridVars, tracks_file, engine_beat,
                   master_volume, tkVars, bufVars>>

\* PsytranceSequencer.generate_kick, followed for the sample at synth_idx
GenerateKick ==
    /\ synth_idx # -1
    /\ sound_data = NoSample
    /\ sound_data' = KickSample(synth_idx)
    /\ UNCHANGED <<uiVars, seqVars, due_step, row_hist, offVars, cycleVars,
                   current_step, is_playing, tempoVars, gridVars, loadVars,
                   volVars, tkVars, synth_idx, pcm>>

\* AudioManager.load_sound_data(tracks[t]["key"], ...), followed for one
\* sample of the buffer: the sample times 32767, converted to int16, in a new
\* Sound under the track's key
LoadSoundData(t) ==
    /\ sound_data # NoSample
    /\ pcm = NoSample
    /\ pcm' \in Quantized(sound_data)
    /\ sounds' = sounds \cup {t}
    /\ sound_volume' = [sound_volume EXCEPT ![t] = NewSoundVolume]
    /\ UNCHANGED <<uiVars, seqVars, due_step, row_hist, offVars, cycleVars,
                   current_step, is_playing, tempoVars, gridVars, tracks_file,
                   engine_beat, master_volume, tkVars, synth_idx, sound_data>>

(***************************************************************************)
(* Specifications.                                                         *)
(***************************************************************************)
SeqNext ==
    \/ SeqCheck
    \/ SeqIdleWake
    \/ SeqGetPattern
    \/ SeqLoopHead
    \/ SeqCell
    \/ SeqNotify
    \/ SeqAdvanceRead
    \/ SeqStore
    \/ SeqSleep
    \/ SeqWake

\* The two threads on the grid: toggles, clears, play and stop against the
\* running loop, every sample downloaded and loaded.
Next ==
    \/ SeqNext
    \/ \E t \in GridTrackArgs, s \in GridStepArgs : ToggleStep(t, s)
    \/ ClearPatternGrid
    \/ ClearPatternStore
    \/ ClearPatternReturn
    \/ TogglePlayback

Spec == InitWith({AllLoaded}) /\ [][Next]_vars

\* The loop against set_tempo, the grid left empty.
NextTempo ==
    \/ SeqNext
    \/ TogglePlayback
    \/ \E b \in LoopTempoArgs : SetTempo(b)

SpecTempo == InitWith({AllLoaded}) /\ [][NextTempo]_vars

\* The same, the sequencer thread being scheduled as long as it can run:
\* it is a thread of its own and nothing in the callbacks holds it back.
SpecTempoFair == SpecTempo /\ WF_vars(SeqNext)

\* The loop against what is loaded: every outcome of load_samples, and a
\* synthesized sample loaded later.
NextLoad ==
    \/ SeqNext
    \/ \E t \in GridTrackArgs, s \in GridStepArgs : ToggleStep(t, s)
    \/ TogglePlayback
    \/ \E t \in SynthTracks : GenerateSyntheticSample(t)

SpecLoad == Init /\ [][NextLoad]_vars

\* The callbacks alone, over the whole of their argument ranges, with the
\* sequencer stopped: the loop only polls is_playing.
NextCalls ==
    \/ SeqCheck
    \/ SeqIdleWake
    \/ \E t \in CallTrackArgs, s \in CallStepArgs : ToggleStep(t, s)
    \/ ClearPatternGrid
    \/ ClearPatternStore
    \/ ClearPatternReturn
    \/ \E b \in TempoArgs : SetTempo(b)

SpecCalls == InitWith({AllLoaded}) /\ [][NextCalls]_vars

\* clear_pattern against a tick of a step other than 0: as Spec, with cells
\* of two different rows.
NextReset ==
    \/ SeqNext
    \/ \E c \in ResetCellArgs : ToggleStep(c[1], c[2])
    \/ ClearPatternGrid
    \/ ClearPatternStore
    \/ ClearPatternReturn
    \/ TogglePlayback

SpecReset == InitWith({AllLoaded}) /\ [][NextReset]_vars

\* The display: clicks on the play button against the running loop, the Tk
\* main loop running the queued playhead callbacks, with a cell, the tempo
\* and the volume changing meanwhile.
InitPlayhead ==
    /\ InitObjects({AllLoaded})
    /\ tk_traced = TRUE
    /\ synth_idx = -1
    /\ sound_data = NoSample
    /\ pcm = NoSample

NextPlayhead ==
    \/ SeqNext
    \/ RunAfter
    \/ OnPlayClicked
    \/ \E s \in GridStepArgs : ToggleStep(0, s)
    \/ \E b \in DisplayTempoArgs : SetTempo(b)
    \/ \E v \in VolumeArgs : SetVolume(v)

SpecPlayhead == InitPlayhead /\ [][NextPlayhead]_vars

\* A sample on its way to the mixer, nothing downloaded: generate_kick
\* followed for each index of KickIdxArgs, and load_sound_data applied to
\* what it returns and to each sample of SampleArgs.
InitBuffer ==
    /\ InitObjects({[file |-> {}, sounds |-> {}]})
    /\ tk_traced = FALSE
    /\ \/ synth_idx = -1 /\ sound_data \in SampleArgs
       \/ synth_idx \in KickIdxArgs /\ sound_data = NoSample
    /\ pcm = NoSample

NextBuffer ==
    \/ GenerateKick
    \/ \E t \in SynthTracks : LoadSoundData(t)

SpecBuffer == InitBuffer /\ [][NextBuffer]_vars


(***************************************************************************)
(* The step counter.                                                       *)
(***************************************************************************)
\* the steps the running tick has called play_sound for
PlayedSteps == {c[1] : c \in play_cells}

\* the tick's call of update_playhead
NotifyStep == seq_pc = "notify" /\ seq_pc' = "advance"

\* the tick's store into current_step
StoreStep == seq_pc = "store" /\ seq_pc' = "read_beat"

\* C1: current_step stays in 0..15; only the loop's store and clear_pattern's
\* write change it, whatever play and stop do; a store that no reset has
\* come between the read and the write of advances it by one modulo 16; and
\* as long as no reset intervenes, each tick plays and shows the step one
\* past the previous tick's modulo 16, the first tick step 0.
C1_StepSequence ==
    /\ [](current_step \in Steps)
    /\ [][current_step' # current_step => StoreStep \/ ui_pc = "clear_store"]_vars
    /\ [][StoreStep /\ step_read = current_step
            => current_step' = (current_step + 1) % NumSteps]_vars
    /\ [][NotifyStep /\ due_step # -1
            => current_step = due_step /\ PlayedSteps \subseteq {due_step}]_vars

\* the counter has wrapped from 15 to 0 with no reset in that tick, and the
\* tick of step 15 was the one due
C1_Wrapped ==
    /\ seq_pc = "read_beat"
    /\ current_step = 0
    /\ due_step = 0

(***************************************************************************)
(* clear_pattern against the running loop.                                 *)
(***************************************************************************)
\* C2: when clear_pattern returns, current_step is 0 and every cell of the
\* pattern is false.
C2_ResetAtReturn ==
    ui_pc = "clear_ret" => current_step = 0 /\ heap[pattern] = EmptyGrid

(***************************************************************************)
(* The row a tick reads.                                                   *)
(***************************************************************************)
\* the flags the tick has read, once it has read all eight
ObservedRow == [t \in Tracks |-> tick_log[t + 1].flag]

\* C6: the eight flags a tick has acted on are the content the pattern's
\* current row had at one instant of the tick.
C6_NoTornRow == seq_pc = "notify" => ObservedRow \in row_hist

(***************************************************************************)
(* Clearing a cell.                                                        *)
(***************************************************************************)
\* toggle_step on the active cell <<s, t>>
TogglesActive(t, s) == ToggleStep(t, s) /\ heap[pattern][s][t]

\* C9: toggle_step on an active cell changes that cell to false and no
\* other cell, and a tick that fetched the pattern after a cell was cleared
\* never calls play_sound for it unless it has been toggled again.
C9_ClearedCellSilent ==
    /\ [][\A t \in GridTrackArgs, s \in GridStepArgs :
            TogglesActive(t, s)
              => heap'[pattern'] = [heap[pattern] EXCEPT ![s][t] = FALSE]]_vars
    /\ [](play_cells \cap off_settled = {})

\* a pass through step 0 after cell <<0, 0>> was cleared: the tick has read
\* the whole row and played the other active cell of it only
C9_PassAfterClear ==
    /\ seq_pc = "notify"
    /\ <<0, 0>> \in off_settled
    /\ play_cells = {<<0, 1>>}


(***************************************************************************)
(* The tempo.                                                              *)
(***************************************************************************)
\* the range the tempo is to be kept in
TempoInRange(b) == 60 <= b /\ b <= 200

\* C3: a set_tempo whose argument is outside [60,200] leaves bpm and
\* beat_duration as they were and raises nothing.
C3_OutOfRangeRejected ==
    [][\A b \in TempoArgs :
         ~TempoInRange(b) /\ SetTempo(b)
           => UNCHANGED <<bpm, beat_duration>> /\ ui_error' = "none"]_vars

\* C4: beat_duration is positive and equal to 60 / bpm / 4.
C4_BeatDurationInvariant ==
    /\ RatPositive(beat_duration)
    /\ bpm # 0
    /\ beat_duration = BeatDuration(bpm)

\* the loop starts the sleep that ends a tick
SleepStep == seq_pc = "read_beat" /\ seq_pc' # "read_beat"

\* C5: the sleep that ends a tick lasts the beat_duration the object holds
\* when the loop reads it, and a set_tempo that runs while the loop sleeps
\* leaves the length of that sleep alone.
C5_SleepReadFresh ==
    /\ [][SleepStep => sleep_arg' = beat_duration]_vars
    /\ [][seq_pc = "sleeping" /\ seq_pc' = "sleeping"
            => sleep_arg' = sleep_arg]_vars

\* the loop sleeps the beat of 120 bpm, so a tick has picked up the first
\* change of tempo, and the tempo has changed again under that sleep
C5_TempoChangedInSleep ==
    /\ seq_pc = "sleeping"
    /\ sleep_arg = BeatDuration(120)
    /\ beat_duration = BeatDuration(500)

(***************************************************************************)
(* What is played.                                                         *)
(***************************************************************************)
\* C7: in a tick, play is invoked for a track exactly when its flag is set
\* and its sound is loaded in the audio manager.
C7_PlayIffLoaded ==
    \A i \in 1 .. Len(tick_log) :
        tick_log[i].played <=> (tick_log[i].flag /\ tick_log[i].loaded)

\* track 0 active at step 0 and every other cell false
KickOnly == heap[pattern] = [EmptyGrid EXCEPT ![0][0] = TRUE]

\* a cycle of 16 ticks that began at step 0 has ended with no callback run
\* since it began
CycleEnd == seq_pc = "read_beat" /\ current_step = 0 /\ cycle_quiet

\* C8: with track 0 loaded and active at step 0 only, a full cycle left
\* alone makes one play call for track 0 and none for any other track.
C8_OnePlayPerCycle ==
    CycleEnd /\ KickOnly /\ 0 \in sounds
      => cycle_plays = [NoPlays EXCEPT ![0] = 1]

\* The same cycle when the kick's sample came from a downloaded file: the
\* count is one play for track 0 and none for the others.
KickCycleOfFileSample ==
    CycleEnd /\ KickOnly /\ 0 \in sounds /\ 0 \in tracks_file
      => cycle_plays = [NoPlays EXCEPT ![0] = 1]

\* such a cycle has been run
KickCycleOfFileSampleRun ==
    CycleEnd /\ KickOnly /\ 0 \in sounds /\ 0 \in tracks_file

(***************************************************************************)
(* toggle_step out of range.                                               *)
(***************************************************************************)
\* C10: toggle_step with step outside 0..15 or track outside 0..7 raises an
\* index error and leaves every cell as it was, on a grid that stays 16 x 8.
C10_OutOfRangeFails ==
    /\ [](heap[pattern] \in Grid)
    /\ [][\A t \in CallTrackArgs, s \in CallStepArgs :
            (s \notin Steps \/ t \notin Tracks) /\ ToggleStep(t, s)
              => ui_error' = "IndexError" /\ heap' = heap]_vars

(***************************************************************************)
(* Play and stop.                                                          *)
(***************************************************************************)
\* the clear_playhead callbacks waiting in the timer queue
ClearsQueued ==
    Cardinality({i \in DOMAIN after_queue : after_queue[i] = ClearCb})

\* C11: toggle_playback flips is_playing and leaves current_step, the
\* pattern, bpm, beat_duration and master_volume as they were; a call that
\* stops the sequencer queues one clear of the playhead, a call that starts
\* it queues nothing, and nothing else queues a clear.
C11_TogglePlaybackFrame ==
    /\ [][TogglePlaybackBody
            => /\ is_playing' = ~is_playing
               /\ UNCHANGED <<current_step, heap, pattern, bpm, beat_duration,
                              master_volume>>
               /\ after_queue' = IF is_playing
                                   THEN Append(after_queue, ClearCb)
                                   ELSE after_queue]_vars
    /\ [][ClearsQueued' > ClearsQueued
            => /\ is_playing /\ ~is_playing'
               /\ ClearsQueued' = ClearsQueued + 1]_vars

\* a stop in the middle of a pattern that is not empty, at a tempo and a
\* volume that have been changed: its clear is queued, the rest is there
C11_StoppedMidPattern ==
    /\ ~is_playing
    /\ after_queue = <<ClearCb>>
    /\ current_step = 3
    /\ heap[pattern][0][0]
    /\ bpm = 120
    /\ master_volume = <<1, 2>>

(***************************************************************************)
(* The loop outliving a failure.                                           *)
(***************************************************************************)
\* C12: whatever fails in a tick, the loop keeps ticking: as long as
\* is_playing stays true, current_step does not stay at any step for ever.
C12_KeepsTicking ==
    \A s \in Steps :
        (is_playing /\ current_step = s) ~> (~is_playing \/ current_step # s)

\* As long as no call inside the loop raises, the loop does keep ticking.
TicksUnlessRaised == [](seq_pc # "dead") => C12_KeepsTicking

(***************************************************************************)
(* The volume.                                                             *)
(***************************************************************************)
\* 0 <= q <= 1
RatInUnit(q) == 0 <= q[1] /\ q[1] <= q[2]

\* the loop calls play_sound for track_idx and the sound is played
PlayStep ==
    /\ seq_pc = "cell" /\ seq_pc' = "loop"
    /\ tick_log'[Len(tick_log')].played

\* e = min(m * m * 3/2, 1), for fractions in lowest terms
OnVolumeCurve(m, e) ==
    IF 3 * m[1] * m[1] >= 2 * m[2] * m[2]
      THEN e = <<1, 1>>
      ELSE 2 * m[2] * m[2] * e[1] = 3 * m[1] * m[1] * e[2]

\* C13: master_volume stays within [0,1]; every play hands the sound the
\* volume min(master_volume^2 * 1.5, 1), which is 0 for master volume 0 and
\* 1 for master volume 1; and every sound's volume stays within [0,1].
C13_VolumeCurve ==
    /\ [](RatInUnit(master_volume))
    /\ [](\A t \in Tracks : RatInUnit(sound_volume[t]))
    /\ [][PlayStep
            => OnVolumeCurve(master_volume, sound_volume'[track_idx])]_vars
    /\ [][PlayStep /\ master_volume = <<0, 1>>
            => sound_volume'[track_idx] = <<0, 1>>]_vars
    /\ [][PlayStep /\ master_volume = <<1, 1>>
            => sound_volume'[track_idx] = <<1, 1>>]_vars

\* track 0 has been played at master volume 1/2, and the master volume has
\* since been set to 0 from a request below 0 or at 0
C13_PlayedAtHalf ==
    /\ sound_volume[0] = <<3, 8>>
    /\ master_volume = <<0, 1>>

(***************************************************************************)
(* Samples on their way to the mixer.                                      *)
(***************************************************************************)
\* C14: load_sound_data makes of a sample x the integer nearest to
\* x * 32767, kept within -32768 .. 32767.
C14_RoundedAndClamped ==
    pcm # NoSample
      => pcm = Clamp16(RoundDiv(sound_data * Int16Max, SampleScale))

\* C15: every sample a synthesizer returns is within [-1,1].
C15_SynthWithinUnit ==
    synth_idx # -1 /\ sound_data # NoSample
      => -SampleScale <= sound_data /\ sound_data <= SampleScale

(***************************************************************************)
(* The step of a tick.                                                     *)
(***************************************************************************)
\* C16: the play calls of one tick are all for cells of one step, and that
\* step is the one the tick passes to update_playhead.
C16_OneStepPerTick ==
    /\ [](Cardinality(PlayedSteps) <= 1)
    /\ [][NotifyStep => PlayedSteps \subseteq {current_step}]_vars

(***************************************************************************)
(* The display.                                                            *)
(***************************************************************************)
\* C17: while the sequencer is stopped and the timer queue holds no
\* callback, no playhead label is highlighted.
C17_DarkWhileStopped ==
    ~is_playing /\ after_queue = <<>> => playhead = {}

\* C18: the play button reads STOP exactly when is_playing is true, and
\* otherwise shows the play action.
C18_ButtonShowsAction ==
    /\ play_text = "STOP" <=> is_playing
    /\ play_text \in {InitialPlayText, "PLAY"} <=> ~is_playing

=============================================================================
